---- MODULE Spec2Model ----
(***************************************************************************)
(* The n8n tool adapter: the two servers of the repository                 *)
(*   "standalone"  src/n8n_mcp_server_standalone.py  (call_tool)           *)
(*   "sdk"         src/src/n8n_mcp_server.py         (six @tool handlers)  *)
(* and the helper make_n8n_request both of them share.                     *)
(*                                                                         *)
(* An invocation runs in a slot.  The handlers are coroutines: everything  *)
(* up to the await of the HTTP exchange is one step (Start), the exchange  *)
(* completing and the rest of the handler is the next (Respond), and a     *)
(* cancellation may be delivered while the invocation is suspended.        *)
(*                                                                         *)
(* Texts are sequences of string pieces, so that an f-string is the        *)
(* concatenation of its literal parts and its formatted values.            *)
(***************************************************************************)
EXTENDS Integers, Sequences, FiniteSets, TLC

VARIABLES N8N_API_KEY, n8n_server, pc, call, sent, session, reply, result, envelope, listed

vars == <<N8N_API_KEY, n8n_server, pc, call, sent, session, reply, result, envelope, listed>>

\* Number of invocations that may be in flight at once.
NumSlots == 2

Slots == 1..NumSlots

Servers == {"standalone", "sdk"}

ToolNames == {"list_workflows", "get_workflow", "execute_workflow",
              "get_execution", "activate_workflow", "deactivate_workflow"}

\* A tool name no branch of call_tool knows.
UnknownTool == "nonexistent_tool"

\* The value of a key that the arguments mapping does not hold.
Absent == "<absent>"

(***************************************************************************)
(* Python values.  Every value is a record tagged with its type.           *)
(***************************************************************************)
PyNone == [t |-> "NoneType"]

PyStr(s) == [t |-> "str", s |-> s]

PyBool(b) == [t |-> "bool", b |-> b]

PyList(l) == [t |-> "list", l |-> l]

PyDict(d) == [t |-> "dict", d |-> d]

EmptyDict == PyDict(<<>>)

\* bool(v): the truth value Python gives a value in `if v` and `if not v`.
Truthy(v) ==
    CASE v.t = "NoneType" -> FALSE
      [] v.t = "bool" -> v.b
      [] v.t = "str" -> v.s # <<>> /\ v.s # <<"">>
      [] v.t = "list" -> Len(v.l) > 0
      [] v.t = "dict" -> DOMAIN v.d # {}

\* str(v) as an f-string formats it.  Lists and dicts are never formatted by
\* the handlers on the payloads enumerated below.
Str(v) ==
    CASE v.t = "NoneType" -> <<"None">>
      [] v.t = "bool" -> IF v.b THEN <<"True">> ELSE <<"False">>
      [] v.t = "str" -> v.s
      [] OTHER -> <<"<", v.t, ">">>

\* A computation either yields a value or raises an exception whose str() is msg.
Ok(v) == [raised |-> FALSE, v |-> v, msg |-> <<>>]

Raise(msg) == [raised |-> TRUE, v |-> PyNone, msg |-> msg]

\* str(e) of the AttributeError of v.get(...) on a value that is no dict.
NoGet(v) == <<"'", v.t, "' object has no attribute 'get'">>

\* d.get(k, default) on a dict d.
Get(d, k, default) == IF k \in DOMAIN d.d THEN d.d[k] ELSE default

\* `k in v`: key membership on a dict, element membership on a list,
\* substring on a str (a piece of its text), TypeError on anything else.
In(k, v) ==
    CASE v.t = "dict" -> Ok(PyBool(k \in DOMAIN v.d))
      [] v.t = "list" -> Ok(PyBool(\E n \in 1..Len(v.l) : v.l[n] = PyStr(<<k>>)))
      [] v.t = "str" -> Ok(PyBool(\E n \in 1..Len(v.s) : v.s[n] = k))
      [] OTHER -> Raise(<<"argument of type '", v.t, "' is not iterable">>)

\* len(v)
PyLen(v) ==
    CASE v.t = "dict" -> Ok(Cardinality(DOMAIN v.d))
      [] v.t = "list" -> Ok(Len(v.l))
      [] v.t = "str" -> Ok(Len(v.s))
      [] OTHER -> Raise(<<"object of type '", v.t, "' has no len()">>)

\* sep.join(texts)
RECURSIVE Join(_, _)
Join(texts, sep) ==
    IF Len(texts) = 0 THEN <<>>
    ELSE IF Len(texts) = 1 THEN texts[1]
    ELSE texts[1] \o <<sep>> \o Join(Tail(texts), sep)

(***************************************************************************)
(* JSON texts: the input_data strings a caller passes and the bodies the   *)
(* remote service answers with, and what json.loads / response.json()      *)
(* decode them to.                                                         *)
(***************************************************************************)
NotJson == "not-json"

BodyNotFound == "not found"

BodyList == "[]"

BodyNoWorkflows == "{\"data\": []}"

BodyWorkflows == "{\"data\": [{\"name\": \"Foo\", \"id\": \"1\", \"active\": true}]}"

BodyFlat == "{\"id\": \"1\", \"name\": \"Foo\", \"active\": true, \"finished\": true, \"nodes\": [{\"name\": \"Start\", \"type\": \"manual\"}]}"

BodyWrapped == "{\"data\": {\"id\": \"1\", \"name\": \"Foo\", \"active\": true, \"finished\": true, \"nodes\": [{\"name\": \"Start\", \"type\": \"manual\"}]}}"

BodyErrorKey == "{\"error\": \"boom\"}"

InputObject == "{\"x\": \"y\"}"

Foo == PyDict([id |-> PyStr(<<"1">>), name |-> PyStr(<<"Foo">>), active |-> PyBool(TRUE),
               finished |-> PyBool(TRUE),
               nodes |-> PyList(<<PyDict([name |-> PyStr(<<"Start">>),
                                          type |-> PyStr(<<"manual">>)])>>)])

\* json.loads(text): the decoded value, or the JSONDecodeError.
JsonLoads(text) ==
    CASE text = "{}" -> Ok(EmptyDict)
      [] text = InputObject -> Ok(PyDict([x |-> PyStr(<<"y">>)]))
      [] text = BodyList -> Ok(PyList(<<>>))
      [] text = BodyNoWorkflows -> Ok(PyDict([data |-> PyList(<<>>)]))
      [] text = BodyWorkflows ->
            Ok(PyDict([data |-> PyList(<<PyDict([name |-> PyStr(<<"Foo">>),
                                                 id |-> PyStr(<<"1">>),
                                                 active |-> PyBool(TRUE)])>>)]))
      [] text = BodyFlat -> Ok(Foo)
      [] text = BodyWrapped -> Ok(PyDict([data |-> Foo]))
      [] text = BodyErrorKey -> Ok(PyDict([error |-> PyStr(<<"boom">>)]))
      [] OTHER -> Raise(<<"Expecting value: line 1 column 1 (char 0)">>)

(***************************************************************************)
(* make_n8n_request                                                        *)
(***************************************************************************)
Methods == {"GET", "POST", "PATCH", "DELETE"}

\* A mutant of Request: json=data is left out of the call.
RequestWithoutJson(method, endpoint, data) ==
    [method |-> method, endpoint |-> endpoint, json |-> PyNone]

\* The request handed to the aiohttp session: session.get(url), or
\* session.post / session.patch(url, json=data).  GET and DELETE pass no json.
Request(method, endpoint, data) ==
    [method |-> method, endpoint |-> endpoint,
     json |-> IF method \in {"POST", "PATCH"} THEN data ELSE PyNone]

NoRequest == [method |-> "", endpoint |-> <<>>, json |-> PyNone]

\* What comes back from the remote side of one exchange: a transport failure
\* (an exception raised inside the try block, body holding str(e)) or a
\* response with its status and body text.
NoReply == [kind |-> "none", status |-> 0, body |-> ""]

Failure(description) == [kind |-> "failure", status |-> 0, body |-> description]

Response(status, body) == [kind |-> "response", status |-> status, body |-> body]

\* {"error": msg}
ErrorResult(msg) == PyDict([error |-> PyStr(msg)])

ConfigMessage == <<"N8N_API_KEY not configured. Set environment variable N8N_API_KEY.">>

\* `if not N8N_API_KEY`
NoCredential(key) == key = ""

\* A mutant of Accepted: every 2xx status is taken as success.
AcceptedAny2xx(method, status) == status >= 200 /\ status < 300

\* The statuses each method's branch takes as success.
Accepted(method, status) ==
    CASE method = "GET" -> status = 200
      [] method = "POST" -> status \in {200, 201}
      [] method = "PATCH" -> status = 200
      [] method = "DELETE" -> status \in {200, 204}
      [] OTHER -> FALSE

\* The value make_n8n_request returns once the exchange is over: the decoded
\* body of an accepted status ({"success": True} for DELETE), the HTTP error of
\* any other status, and "Request failed" for whatever the try block raised,
\* the decoding of the body included.
HandleReply(method, rep) ==
    IF rep.kind = "failure" THEN ErrorResult(<<"Request failed: ", rep.body>>)
    ELSE IF Accepted(method, rep.status)
         THEN IF method = "DELETE" THEN PyDict([success |-> PyBool(TRUE)])
              ELSE LET j == JsonLoads(rep.body)
                   IN  IF j.raised THEN ErrorResult(<<"Request failed: ">> \o j.msg) ELSE j.v
         ELSE ErrorResult(<<"HTTP ", ToString(rep.status), ": ", rep.body>>)

(***************************************************************************)
(* The handlers.  What a handler's code yields is a text with or without   *)
(* the is_error mark, or an exception.                                     *)
(***************************************************************************)
Rendered(text) == [raised |-> FALSE, text |-> text, is_error |-> FALSE, msg |-> <<>>]

Errored(text) == [raised |-> FALSE, text |-> text, is_error |-> TRUE, msg |-> <<>>]

Raised(msg) == [raised |-> TRUE, text |-> <<>>, is_error |-> FALSE, msg |-> msg]

\* f"{workflow_id}" of arguments.get("workflow_id"): None when the key is absent.
Fmt(arg) == IF arg = Absent THEN "None" ELSE arg

\* The elements a for loop or a comprehension draws from a value that is not a
\* list: the keys of a dict and the characters of a str are strs.
RECURSIVE KeySeq(_)
KeySeq(keys) ==
    IF keys = {} THEN <<>>
    ELSE LET k == CHOOSE x \in keys : TRUE
         IN  <<PyStr(<<k>>)>> \o KeySeq(keys \ {k})

Iterate(v) ==
    CASE v.t = "list" -> Ok(v.l)
      [] v.t = "dict" -> Ok(KeySeq(DOMAIN v.d))
      [] v.t = "str" -> Ok([n \in 1..Len(v.s) |-> PyStr(<<v.s[n]>>)])
      [] OTHER -> Raise(<<"'", v.t, "' object is not iterable">>)

\* The first element of a sequence on which .get(...) raises, 0 when none does.
FirstNoGet(elems) ==
    IF \E n \in 1..Len(elems) : elems[n].t # "dict"
    THEN CHOOSE n \in 1..Len(elems) :
            /\ elems[n].t # "dict"
            /\ \A m \in 1..(n - 1) : elems[m].t = "dict"
    ELSE 0

ActiveWord(wf) == IF Truthy(Get(wf, "active", PyNone)) THEN "Active" ELSE "Inactive"

FinishedWord(ex) == IF Truthy(Get(ex, "finished", PyBool(FALSE))) THEN "Finished" ELSE "Running"

\* `if "error" in result: return Error: {result['error']}`; otherwise the rest of
\* the handler, rest, goes on.  result['error'] on a list or a str is a TypeError.
ErrorOr(res, rest) ==
    LET c == In("error", res)
    IN  IF c.raised THEN Raised(c.msg)
        ELSE IF c.v.b
             THEN IF res.t = "dict" THEN Errored(<<"Error: ">> \o Str(res.d["error"]))
                  ELSE Raised(<<res.t, " indices must be integers">>)
             ELSE rest

\* list_workflows, after the error test.
RenderWorkflowList(res) ==
    IF res.t # "dict" THEN Raised(NoGet(res))
    ELSE LET workflows == Get(res, "data", PyList(<<>>))
         IN  IF ~Truthy(workflows) THEN Rendered(<<"No workflows found in n8n.">>)
             ELSE LET it == Iterate(workflows)
                  IN  IF it.raised THEN Raised(it.msg)
                      ELSE IF FirstNoGet(it.v) # 0 THEN Raised(NoGet(it.v[FirstNoGet(it.v)]))
                      ELSE LET line(wf) ==
                                   <<"- ">> \o Str(Get(wf, "name", PyStr(<<"Unnamed">>)))
                                   \o <<" (ID: ">> \o Str(Get(wf, "id", PyNone))
                                   \o <<") ", "[", ActiveWord(wf), "]">>
                               n == PyLen(workflows)
                           IN  Rendered(<<"Found ", ToString(n.v), " workflow(s):\n">>
                                        \o Join([k \in 1..Len(it.v) |-> line(it.v[k])], "\n"))

\* The node lines the standalone get_workflow appends: "  - name (type)".
NodeLines(elems) ==
    [k \in 1..Len(elems) |->
        <<"  - ">> \o Str(Get(elems[k], "name", PyStr(<<"Unnamed">>)))
        \o <<" (">> \o Str(Get(elems[k], "type", PyStr(<<"Unknown">>))) \o <<")">>]

\* ', '.join([tag.get('name', '') for tag in tags])
TagNames(elems) == Join([k \in 1..Len(elems) |-> Str(Get(elems[k], "name", PyStr(<<"">>)))], ", ")

\* The tag line of get_workflow, appended after the lines of info; lead is what
\* the server's f-string puts before "Tags: ".
WithTags(wf, info, lead) ==
    LET tags == Get(wf, "tags", PyNone)
    IN  IF ~Truthy(tags) THEN Rendered(Join(info, "\n"))
        ELSE LET it == Iterate(tags)
             IN  IF it.raised THEN Raised(it.msg)
                 ELSE IF FirstNoGet(it.v) # 0 THEN Raised(NoGet(it.v[FirstNoGet(it.v)]))
                 ELSE Rendered(Join(info \o <<<<lead, "Tags: ">> \o TagNames(it.v)>>, "\n"))

\* The five lines both servers' get_workflow start with.
WorkflowInfo(wf, nodeCount, connectionCount) ==
    << <<"Workflow: ">> \o Str(Get(wf, "name", PyStr(<<"Unnamed">>))),
       <<"ID: ">> \o Str(Get(wf, "id", PyNone)),
       <<"Status: ", ActiveWord(wf)>>,
       <<"Nodes: ", ToString(nodeCount)>>,
       <<"Connections: ", ToString(connectionCount)>> >>

\* The counts, the node lines and the tag line of a workflow wf that is a dict.
RenderWorkflow(wf, listNodes) ==
    LET nodes == Get(wf, "nodes", PyList(<<>>))
        connections == Get(wf, "connections", EmptyDict)
        n == PyLen(nodes)
        c == PyLen(connections)
    IN  IF n.raised THEN Raised(n.msg)
        ELSE IF c.raised THEN Raised(c.msg)
        ELSE IF listNodes /\ Truthy(nodes)
             THEN LET it == Iterate(nodes)
                  IN  IF it.raised THEN Raised(it.msg)
                      ELSE IF FirstNoGet(it.v) # 0 THEN Raised(NoGet(it.v[FirstNoGet(it.v)]))
                      ELSE WithTags(wf, WorkflowInfo(wf, n.v, c.v)
                                        \o << <<"\nNodes in workflow:">> >>
                                        \o NodeLines(it.v), "\n")
             ELSE WithTags(wf, WorkflowInfo(wf, n.v, c.v), IF listNodes THEN "\n" ELSE "")

\* get_workflow of the standalone server, after the error test: the workflow
\* is result["data"] when the result has that key and the result itself
\* otherwise.  (A result that reached this point is a dict, a list or a str.)
StandaloneWorkflow(res) ==
    LET wf == IF In("data", res).v.b
              THEN (IF res.t = "dict" THEN Get(res, "data", EmptyDict) ELSE res)
              ELSE res
    IN  IF In("data", res).v.b /\ res.t # "dict" THEN Raised(NoGet(res))
        ELSE IF wf.t # "dict" THEN Raised(NoGet(wf))
        ELSE RenderWorkflow(wf, TRUE)

\* get_workflow of the sdk server, after the error test: result.get("data", {}),
\* no node lines.
SdkWorkflow(res) ==
    IF res.t # "dict" THEN Raised(NoGet(res))
    ELSE LET wf == Get(res, "data", EmptyDict)
         IN  IF wf.t # "dict" THEN Raised(NoGet(wf)) ELSE RenderWorkflow(wf, FALSE)

\* execute_workflow, after the error test.
RenderExecuted(res) ==
    IF res.t # "dict" THEN Raised(NoGet(res))
    ELSE LET execution_data == Get(res, "data", EmptyDict)
         IN  IF execution_data.t # "dict" THEN Raised(NoGet(execution_data))
             ELSE Rendered(<<"Workflow executed!\nExecution ID: ">>
                           \o Str(Get(execution_data, "id", PyStr(<<"unknown">>)))
                           \o <<"\nStatus: ", FinishedWord(execution_data)>>)

\* get_execution, after the error test.
RenderExecution(res) ==
    IF res.t # "dict" THEN Raised(NoGet(res))
    ELSE LET execution == Get(res, "data", EmptyDict)
         IN  IF execution.t # "dict" THEN Raised(NoGet(execution))
             ELSE LET workflowData == Get(execution, "workflowData", EmptyDict)
                      info == << <<"Execution ID: ">> \o Str(Get(execution, "id", PyNone)),
                                 <<"Workflow: ">> \o Str(Get(workflowData, "name", PyStr(<<"Unknown">>))),
                                 <<"Status: ", IF Truthy(Get(execution, "finished", PyNone))
                                               THEN "Finished" ELSE "Running">>,
                                 <<"Mode: ">> \o Str(Get(execution, "mode", PyStr(<<"unknown">>))) >>
                      stoppedAt == Get(execution, "stoppedAt", PyNone)
                  IN  IF workflowData.t # "dict" THEN Raised(NoGet(workflowData))
                      ELSE IF Truthy(stoppedAt)
                           THEN Rendered(Join(info \o << <<"Stopped at: ">> \o Str(stoppedAt) >>, "\n"))
                           ELSE Rendered(Join(info, "\n"))

\* activate_workflow and deactivate_workflow, after the error test.
RenderSwitched(workflow_id, word) ==
    Rendered(<<"Workflow ", Fmt(workflow_id), " ", word, " successfully!">>)

\* What a tool's code yields from the value make_n8n_request returned.
AfterRequest(server, name, args, res) ==
    ErrorOr(res,
        CASE name = "list_workflows" -> RenderWorkflowList(res)
          [] name = "get_workflow" ->
                IF server = "standalone" THEN StandaloneWorkflow(res) ELSE SdkWorkflow(res)
          [] name = "execute_workflow" -> RenderExecuted(res)
          [] name = "get_execution" -> RenderExecution(res)
          [] name = "activate_workflow" -> RenderSwitched(args.workflow_id, "activated")
          [] name = "deactivate_workflow" -> RenderSwitched(args.workflow_id, "deactivated"))

(***************************************************************************)
(* The code of a handler before it calls make_n8n_request: either it       *)
(* returns at once (done) or it has the request to make.                   *)
(***************************************************************************)
Go(req) == [done |-> FALSE, out |-> Rendered(<<>>), req |-> req]

Stop(out) == [done |-> TRUE, out |-> out, req |-> NoRequest]

InvalidInput == <<"Error: ", "input_data must be valid JSON string">>

\* call_tool: arguments.get(key) is None for an absent key, input_data
\* defaults to "{}" and is decoded when it is not empty.
StandalonePrepare(name, args) ==
    CASE name = "list_workflows" -> Go(Request("GET", <<"workflows">>, PyNone))
      [] name = "get_workflow" ->
            Go(Request("GET", <<"workflows/", Fmt(args.workflow_id)>>, PyNone))
      [] name = "execute_workflow" ->
            LET input_data == IF args.input_data = Absent THEN "{}" ELSE args.input_data
                j == JsonLoads(input_data)
                endpoint == <<"workflows/", Fmt(args.workflow_id), "/execute">>
            IN  IF input_data = "" THEN Go(Request("POST", endpoint, EmptyDict))
                ELSE IF j.raised THEN Stop(Errored(InvalidInput))
                ELSE Go(Request("POST", endpoint, j.v))
      [] name = "get_execution" ->
            Go(Request("GET", <<"executions/", Fmt(args.execution_id)>>, PyNone))
      [] name = "activate_workflow" ->
            Go(Request("PATCH", <<"workflows/", Fmt(args.workflow_id)>>,
                       PyDict([active |-> PyBool(TRUE)])))
      [] name = "deactivate_workflow" ->
            Go(Request("PATCH", <<"workflows/", Fmt(args.workflow_id)>>,
                       PyDict([active |-> PyBool(FALSE)])))
      [] OTHER -> Stop(Errored(<<"Unknown tool: ", name>>))

\* str(e) of the KeyError of args[key].
KeyError(key) == <<"'", key, "'">>

\* The six @tool handlers: args[key] raises KeyError for an absent key, and
\* input_data is decoded when args.get("input_data") is truthy.
SdkPrepare(name, args) ==
    CASE name = "list_workflows" -> Go(Request("GET", <<"workflows">>, PyNone))
      [] name = "get_workflow" ->
            IF args.workflow_id = Absent THEN Stop(Raised(KeyError("workflow_id")))
            ELSE Go(Request("GET", <<"workflows/", args.workflow_id>>, PyNone))
      [] name = "execute_workflow" ->
            LET j == JsonLoads(args.input_data)
                endpoint == <<"workflows/", args.workflow_id, "/execute">>
            IN  IF args.workflow_id = Absent THEN Stop(Raised(KeyError("workflow_id")))
                ELSE IF args.input_data \in {Absent, ""}
                     THEN Go(Request("POST", endpoint, EmptyDict))
                ELSE IF j.raised THEN Stop(Errored(InvalidInput))
                ELSE Go(Request("POST", endpoint, j.v))
      [] name = "get_execution" ->
            IF args.execution_id = Absent THEN Stop(Raised(KeyError("execution_id")))
            ELSE Go(Request("GET", <<"executions/", args.execution_id>>, PyNone))
      [] name = "activate_workflow" ->
            IF args.workflow_id = Absent THEN Stop(Raised(KeyError("workflow_id")))
            ELSE Go(Request("PATCH", <<"workflows/", args.workflow_id>>,
                            PyDict([active |-> PyBool(TRUE)])))
      [] name = "deactivate_workflow" ->
            IF args.workflow_id = Absent THEN Stop(Raised(KeyError("workflow_id")))
            ELSE Go(Request("PATCH", <<"workflows/", args.workflow_id>>,
                            PyDict([active |-> PyBool(FALSE)])))

Prepare(server, name, args) ==
    IF server = "standalone" THEN StandalonePrepare(name, args) ELSE SdkPrepare(name, args)

(***************************************************************************)
(* What the caller gets.  call_tool returns a bare list of TextContent:    *)
(* nothing in it marks an error, and an exception leaves call_tool.  An    *)
(* sdk handler returns {"content": ..., "is_error": True} from its error   *)
(* branches and from its `except Exception`.                               *)
(***************************************************************************)
Envelope(text, is_error) == [text |-> text, is_error |-> is_error]

NoEnvelope == Envelope(<<>>, FALSE)

FailedTo(name) ==
    CASE name = "list_workflows" -> "Failed to list workflows: "
      [] name = "get_workflow" -> "Failed to get workflow: "
      [] name = "execute_workflow" -> "Failed to execute workflow: "
      [] name = "get_execution" -> "Failed to get execution: "
      [] name = "activate_workflow" -> "Failed to activate workflow: "
      [] name = "deactivate_workflow" -> "Failed to deactivate workflow: "

\* Does the handler end by raising to its caller?
Propagates(server, out) == server = "standalone" /\ out.raised

Returned(server, name, out) ==
    IF server = "standalone" THEN Envelope(out.text, FALSE)
    ELSE IF out.raised THEN Envelope(<<FailedTo(name)>> \o out.msg, TRUE)
    ELSE Envelope(out.text, out.is_error)

(***************************************************************************)
(* Inputs                                                                  *)
(***************************************************************************)
WorkflowIds == {"42"}

ExecutionIds == {"7"}

InputTexts == {"", NotJson, "{}", InputObject}

\* The properties each tool's inputSchema declares (list_tools).
Properties(name) ==
    CASE name \in {"get_workflow", "activate_workflow", "deactivate_workflow"} -> {"workflow_id"}
      [] name = "execute_workflow" -> {"workflow_id", "input_data"}
      [] name = "get_execution" -> {"execution_id"}
      [] OTHER -> {}

\* The arguments mappings of a call of a tool: any subset of the properties the
\* tool declares, the required ones included or not.
Arguments(name) ==
    {a \in [workflow_id : WorkflowIds \cup {Absent},
            execution_id : ExecutionIds \cup {Absent},
            input_data : InputTexts \cup {Absent}] :
        \A k \in {"workflow_id", "execution_id", "input_data"} \ Properties(name) :
            a[k] = Absent}

NoArguments == [workflow_id |-> Absent, execution_id |-> Absent, input_data |-> Absent]

\* The names a server can be called with: call_tool takes any name, the sdk
\* server has only its six handlers.
Names(server) == IF server = "standalone" THEN ToolNames \cup {UnknownTool} ELSE ToolNames

(***************************************************************************)
(* The tool catalog.  The standalone server builds the list anew in every  *)
(* list_tools call; the sdk server is given the list of decorated handlers *)
(* once, when the module is imported.                                      *)
(***************************************************************************)
Tool(name, required) ==
    [name |-> name, properties |-> Properties(name), required |-> required]

\* A mutant of list_tools: two descriptors change places.
list_tools_reordered ==
    << Tool("list_workflows", <<>>),
       Tool("execute_workflow", <<"workflow_id">>),
       Tool("get_workflow", <<"workflow_id">>),
       Tool("get_execution", <<"execution_id">>),
       Tool("activate_workflow", <<"workflow_id">>),
       Tool("deactivate_workflow", <<"workflow_id">>) >>

list_tools ==
    << Tool("list_workflows", <<>>),
       Tool("get_workflow", <<"workflow_id">>),
       Tool("execute_workflow", <<"workflow_id">>),
       Tool("get_execution", <<"execution_id">>),
       Tool("activate_workflow", <<"workflow_id">>),
       Tool("deactivate_workflow", <<"workflow_id">>) >>

\* @tool(name, description, input_schema): the decorated handler, with the
\* parameters its schema names.
tool(name) == [name |-> name, input_schema |-> Properties(name)]

\* create_sdk_mcp_server(name="n8n", version="1.0.0", tools=[...])
create_sdk_mcp_server ==
    [name |-> "n8n", version |-> "1.0.0",
     tools |-> << tool("list_workflows"), tool("get_workflow"), tool("execute_workflow"),
                  tool("get_execution"), tool("activate_workflow"),
                  tool("deactivate_workflow") >>]

\* What a catalog query of a server returns.
Listing(server, tools) == [server |-> server, tools |-> tools]

NoListing == Listing("", <<>>)

Statuses == {200, 201, 204, 404}

Bodies == {BodyNotFound, BodyList, BodyNoWorkflows, BodyWorkflows, BodyFlat, BodyWrapped,
           BodyErrorKey}

ConnectionRefused == "Cannot connect to host localhost:5678"

Replies == {Failure(ConnectionRefused)} \cup {Response(s, b) : s \in Statuses, b \in Bodies}

NoCall == [server |-> "", name |-> "", args |-> NoArguments]

NoResult == [t |-> "unset"]

(***************************************************************************)
(* State                                                                   *)
(***************************************************************************)
TypeOK ==
    /\ N8N_API_KEY \in {"", "secret"}
    /\ pc \in [Slots -> {"idle", "awaiting", "done", "raised", "cancelled"}]
    /\ session \in [Slots -> {"none", "open", "closed"}]
    /\ \A i \in Slots : Len(sent[i]) \in 0..2
    /\ DOMAIN call = Slots /\ DOMAIN reply = Slots
    /\ DOMAIN result = Slots /\ DOMAIN envelope = Slots
    /\ n8n_server.name = "n8n"
    /\ listed.server \in Servers \cup {""}

\* load_dotenv and os.getenv at import: the key is set or it is not, once.
Init ==
    /\ N8N_API_KEY \in {"", "secret"}
    /\ n8n_server = create_sdk_mcp_server
    /\ listed = NoListing
    /\ pc = [i \in Slots |-> "idle"]
    /\ call = [i \in Slots |-> NoCall]
    /\ sent = [i \in Slots |-> <<>>]
    /\ session = [i \in Slots |-> "none"]
    /\ reply = [i \in Slots |-> NoReply]
    /\ result = [i \in Slots |-> NoResult]
    /\ envelope = [i \in Slots |-> NoEnvelope]

\* The handler of slot i ends with outcome out.
Finish(i, server, name, out) ==
    /\ pc' = [pc EXCEPT ![i] = IF Propagates(server, out) THEN "raised" ELSE "done"]
    /\ envelope' = [envelope EXCEPT ![i] = IF Propagates(server, out) THEN NoEnvelope
                                           ELSE Returned(server, name, out)]

\* `async with aiohttp.ClientSession(...) as session`: the session of slot i
\* is opened on entry of the block.
SessionEnter(sessions, i) == [sessions EXCEPT ![i] = "open"]

\* A mutant of SessionExit: one session serves every invocation, and leaving
\* the block closes it for all of them.
SessionExitShared(sessions, i) == [k \in DOMAIN sessions |-> "closed"]

\* A mutant of SessionExit: leaving the block leaves the session as it is.
SessionExitLeaks(sessions, i) == sessions

\* The block is left, by return or by an exception passing through: the
\* session of slot i is closed.
SessionExit(sessions, i) == [sessions EXCEPT ![i] = "closed"]

\* A mutant of Issue: the request is sent a second time.
IssueTwice(log, req) == Append(Append(log, req), req)

\* session.get / post / patch / delete: the request goes out on the session.
Issue(log, req) == Append(log, req)

\* A tool is called: its handler runs up to the HTTP exchange, or to its end
\* when it returns before any.
Start(i, server, name, args) ==
    /\ pc[i] = "idle"
    /\ call' = [call EXCEPT ![i] = [server |-> server, name |-> name, args |-> args]]
    /\ reply' = reply
    /\ LET p == Prepare(server, name, args)
       IN  IF p.done
           THEN /\ Finish(i, server, name, p.out)
                /\ UNCHANGED <<sent, session, result>>
           ELSE IF NoCredential(N8N_API_KEY)
           THEN /\ result' = [result EXCEPT ![i] = ErrorResult(ConfigMessage)]
                /\ Finish(i, server, name,
                          AfterRequest(server, name, args, ErrorResult(ConfigMessage)))
                /\ UNCHANGED <<sent, session>>
           ELSE /\ pc' = [pc EXCEPT ![i] = "awaiting"]
                /\ session' = SessionEnter(session, i)
                /\ sent' = [sent EXCEPT ![i] = Issue(@, p.req)]
                /\ UNCHANGED <<result, envelope>>
    /\ UNCHANGED <<N8N_API_KEY, n8n_server, listed>>

\* make_n8n_request is called by itself, outside any tool.
StartRequest(i, method, endpoint, data) ==
    /\ pc[i] = "idle"
    /\ call' = [call EXCEPT ![i] = [server |-> "", name |-> "make_n8n_request",
                                    args |-> NoArguments]]
    /\ IF NoCredential(N8N_API_KEY)
       THEN /\ result' = [result EXCEPT ![i] = ErrorResult(ConfigMessage)]
            /\ pc' = [pc EXCEPT ![i] = "done"]
            /\ UNCHANGED <<sent, session>>
       ELSE /\ pc' = [pc EXCEPT ![i] = "awaiting"]
            /\ session' = SessionEnter(session, i)
            /\ sent' = [sent EXCEPT ![i] = Issue(@, Request(method, endpoint, data))]
            /\ UNCHANGED result
    /\ UNCHANGED <<N8N_API_KEY, n8n_server, listed, reply, envelope>>

\* The exchange of slot i ends with rep: the session context exits,
\* make_n8n_request returns and the handler runs to its end.
Respond(i, rep) ==
    /\ pc[i] = "awaiting"
    /\ reply' = [reply EXCEPT ![i] = rep]
    /\ session' = SessionExit(session, i)
    /\ LET res == HandleReply(sent[i][Len(sent[i])].method, rep)
       IN  /\ result' = [result EXCEPT ![i] = res]
           /\ IF call[i].name = "make_n8n_request"
              THEN /\ pc' = [pc EXCEPT ![i] = "done"]
                   /\ UNCHANGED envelope
              ELSE Finish(i, call[i].server, call[i].name,
                          AfterRequest(call[i].server, call[i].name, call[i].args, res))
    /\ UNCHANGED <<N8N_API_KEY, n8n_server, listed, call, sent>>

\* The suspended invocation of slot i is cancelled: CancelledError is no
\* Exception, so no except clause takes it; the session context exits.
Cancel(i) ==
    /\ pc[i] = "awaiting"
    /\ pc' = [pc EXCEPT ![i] = "cancelled"]
    /\ session' = SessionExit(session, i)
    /\ UNCHANGED <<N8N_API_KEY, n8n_server, listed, call, sent, reply, result, envelope>>

\* The ended invocation of slot i is gone; the slot serves the next one.
Release(i) ==
    /\ pc[i] \in {"done", "raised", "cancelled"}
    /\ pc' = [pc EXCEPT ![i] = "idle"]
    /\ call' = [call EXCEPT ![i] = NoCall]
    /\ sent' = [sent EXCEPT ![i] = <<>>]
    /\ session' = [session EXCEPT ![i] = "none"]
    /\ reply' = [reply EXCEPT ![i] = NoReply]
    /\ result' = [result EXCEPT ![i] = NoResult]
    /\ envelope' = [envelope EXCEPT ![i] = NoEnvelope]
    /\ UNCHANGED <<N8N_API_KEY, n8n_server, listed>>

\* The catalog of a server is queried: list_tools runs, or the sdk server
\* lists the tools it was created with.
ListTools(server) ==
    /\ listed' = Listing(server, IF server = "standalone" THEN list_tools
                                 ELSE n8n_server.tools)
    /\ UNCHANGED <<N8N_API_KEY, n8n_server, pc, call, sent, session, reply, result, envelope>>

Invoke == \E i \in Slots, server \in Servers :
            \E name \in Names(server) : \E args \in Arguments(name) :
                Start(i, server, name, args)

Exchange == \E i \in Slots, rep \in Replies : Respond(i, rep)

Cancellation == \E i \in Slots : Cancel(i)

Recycle == \E i \in Slots : Release(i)

DirectRequest == \E i \in Slots, method \in Methods :
                    StartRequest(i, method, <<"workflows/", "42">>, EmptyDict)

Next == Invoke \/ Exchange \/ Cancellation \/ Recycle

Spec == Init /\ [][Next]_vars

NextRequest == Next \/ DirectRequest

SpecRequest == Init /\ [][NextRequest]_vars

CatalogQuery == \E server \in Servers : ListTools(server)

NextCatalog == Next \/ CatalogQuery

SpecCatalog == Init /\ [][NextCatalog]_vars

(***************************************************************************)
(* Vocabulary of the properties                                            *)
(***************************************************************************)
IsTool(i) == call[i].name \in ToolNames \cup {UnknownTool}

\* The invocation of slot i is over: it returned, or it raised.
Ended(i) == pc[i] \in {"done", "raised"}

\* The texts the handlers return from their error branches.
ErrorText(text) ==
    /\ Len(text) > 0
    /\ text[1] \in {"Error: ", "Unknown tool: "} \cup {FailedTo(n) : n \in ToolNames}

HasPiece(text, piece) == \E n \in 1..Len(text) : text[n] = piece

ConfigErrorText == <<"Error: ">> \o ConfigMessage

\* The argument a tool's inputSchema requires, "" when it requires none.
RequiredKey(name) ==
    CASE name \in {"get_workflow", "execute_workflow", "activate_workflow",
                   "deactivate_workflow"} -> "workflow_id"
      [] name = "get_execution" -> "execution_id"
      [] OTHER -> ""

MissesRequired(i) ==
    /\ RequiredKey(call[i].name) # ""
    /\ call[i].args[RequiredKey(call[i].name)] = Absent

MalformedInput(i) == call[i].name = "execute_workflow" /\ call[i].args.input_data = NotJson

(***************************************************************************)
(* C1.  With no credential configured, an invocation of any of the six     *)
(* tools returns the configuration-error envelope and makes no HTTP call.  *)
(* Fails: a handler that stops before make_n8n_request (malformed          *)
(* input_data, a missing required argument in the sdk server) returns its  *)
(* own error, not the configuration error.                                 *)
(***************************************************************************)
C1_NoCredentialConfigError ==
    \A i \in Slots :
        (N8N_API_KEY = "" /\ call[i].name \in ToolNames /\ pc[i] # "idle") =>
            /\ pc[i] = "done"
            /\ envelope[i].text = ConfigErrorText
            /\ Len(sent[i]) = 0

(***************************************************************************)
(* C2.  An invocation never raises to its caller: it ends by returning an  *)
(* envelope whose text is not empty.                                       *)
(* Fails: call_tool has no except clause, so what the rendering raises on  *)
(* an accepted reply of an unexpected shape leaves call_tool.              *)
(***************************************************************************)
C2_NeverRaises ==
    \A i \in Slots :
        IsTool(i) =>
            /\ pc[i] # "raised"
            /\ pc[i] = "done" => envelope[i].text # <<>>

\* The statuses the dispatch of the specification accepts, per method.
ClaimAccepted(method, status) ==
    \/ method \in {"GET", "PATCH"} /\ status = 200
    \/ method = "POST" /\ status \in {200, 201}
    \/ method = "DELETE" /\ status \in {200, 204}

\* The invocation of slot i has a credential and arguments that validate.
PassesChecks(i) ==
    /\ N8N_API_KEY # ""
    /\ call[i].name \in ToolNames
    /\ ~MissesRequired(i)
    /\ ~MalformedInput(i)

C4_ValidationErrorFlaggedNoRequest ==
    \A i \in Slots :
        (pc[i] # "idle" /\ (call[i].name = UnknownTool \/ MalformedInput(i))) =>
            /\ pc[i] = "done"
            /\ envelope[i].is_error
            /\ Len(sent[i]) = 0

\* The half of C4 that holds: no request is issued, an error text is returned.
ValidationIssuesNoRequest ==
    \A i \in Slots :
        (pc[i] # "idle" /\ (call[i].name = UnknownTool \/ MalformedInput(i))) =>
            /\ pc[i] = "done"
            /\ ErrorText(envelope[i].text)
            /\ Len(sent[i]) = 0
            /\ session[i] = "none"

\* The exchange of slot i was answered, and this is the method it used.
Answered(i) == reply[i].kind = "response"

MethodOf(i) == sent[i][1].method

\* The invocation of slot i ended in success: a tool returned a text that is
\* none of the error texts; make_n8n_request called by itself returned a
\* value that is no {"error": ...}.
Succeeded(i) ==
    IF IsTool(i) THEN pc[i] = "done" /\ ~ErrorText(envelope[i].text)
    ELSE pc[i] = "done" /\ ~(result[i].t = "dict" /\ "error" \in DOMAIN result[i].d)

HttpErrorText(i) == <<"HTTP ", ToString(reply[i].status), ": ", reply[i].body>>

C6_TransportErrorFlagged ==
    \A i \in Slots :
        (IsTool(i) /\ reply[i].kind = "failure") =>
            /\ pc[i] = "done"
            /\ envelope[i].is_error
            /\ HasPiece(envelope[i].text, reply[i].body)

\* The half of C6 that holds: the failure is returned as "Error: Request
\* failed: <description>", nothing is raised, the session is closed and the
\* slot can be released for the next invocation.
TransportFailureReturned ==
    \A i \in Slots :
        (IsTool(i) /\ reply[i].kind = "failure") =>
            /\ pc[i] = "done"
            /\ envelope[i].text = <<"Error: ", "Request failed: ", reply[i].body>>
            /\ session[i] = "closed"
            /\ ENABLED Release(i)

\* The dispatch table of the specification: the request of a tool called
\* with args.
DispatchRow(name, args) ==
    CASE name = "list_workflows" ->
            [method |-> "GET", endpoint |-> <<"workflows">>, json |-> PyNone]
      [] name = "get_workflow" ->
            [method |-> "GET", endpoint |-> <<"workflows/", args.workflow_id>>, json |-> PyNone]
      [] name = "get_execution" ->
            [method |-> "GET", endpoint |-> <<"executions/", args.execution_id>>, json |-> PyNone]
      [] name = "execute_workflow" ->
            [method |-> "POST", endpoint |-> <<"workflows/", args.workflow_id, "/execute">>,
             json |-> IF args.input_data \in {Absent, ""} THEN EmptyDict
                      ELSE JsonLoads(args.input_data).v]
      [] name = "activate_workflow" ->
            [method |-> "PATCH", endpoint |-> <<"workflows/", args.workflow_id>>,
             json |-> PyDict([active |-> PyBool(TRUE)])]
      [] name = "deactivate_workflow" ->
            [method |-> "PATCH", endpoint |-> <<"workflows/", args.workflow_id>>,
             json |-> PyDict([active |-> PyBool(FALSE)])]

(***************************************************************************)
(* C7.  The request an invocation issues is the dispatch-table row of its  *)
(* tool, the identifier it was given interpolated into the path: whatever  *)
(* an invocation holding its required identifier has sent is exactly that  *)
(* row, and one that passes the checks has sent it.                        *)
(***************************************************************************)
C7_RequestIsDispatchRow ==
    \A i \in Slots :
        (IsTool(i) /\ ~MissesRequired(i)) =>
            /\ Len(sent[i]) > 0 => sent[i] = <<DispatchRow(call[i].name, call[i].args)>>
            /\ (pc[i] # "idle" /\ PassesChecks(i)) => Len(sent[i]) > 0

\* execute_workflow has posted the object its input_data decodes to, while in
\* the other slot activate_workflow has patched {"active": true}.
C7_Witness ==
    \E i, k \in Slots :
        /\ call[i].name = "execute_workflow" /\ call[i].args.input_data = InputObject
        /\ Len(sent[i]) = 1
        /\ sent[i][1].json = PyDict([x |-> PyStr(<<"y">>)])
        /\ call[k].name = "activate_workflow" /\ Len(sent[k]) = 1
        /\ sent[k][1].endpoint = <<"workflows/", "42">>

(***************************************************************************)
(* C8.  The error flag of a returned envelope is set exactly when the      *)
(* invocation failed.                                                      *)
(* Fails: the standalone server returns every error text without a flag.   *)
(***************************************************************************)
C8_ErrorFlagIffFailed ==
    \A i \in Slots :
        (IsTool(i) /\ pc[i] = "done") =>
            (envelope[i].is_error <=> ErrorText(envelope[i].text))

\* C8 does hold of the sdk server.
SdkErrorFlagIffFailed ==
    \A i \in Slots :
        (IsTool(i) /\ pc[i] = "done" /\ call[i].server = "sdk") =>
            (envelope[i].is_error <=> ErrorText(envelope[i].text))

(***************************************************************************)
(* C9.  An invocation that lacks the argument its tool requires returns an *)
(* error envelope and issues no HTTP request.                              *)
(* Fails: call_tool reads the argument with arguments.get and sends the    *)
(* request with "None" in the path.                                        *)
(***************************************************************************)
C9_MissingArgumentNoRequest ==
    \A i \in Slots :
        (IsTool(i) /\ pc[i] # "idle" /\ MissesRequired(i)) =>
            /\ Len(sent[i]) = 0
            /\ pc[i] = "done"
            /\ ErrorText(envelope[i].text)

\* C9 does hold of the sdk server, whose args[key] raises KeyError.
SdkMissingArgumentNoRequest ==
    \A i \in Slots :
        (IsTool(i) /\ pc[i] # "idle" /\ MissesRequired(i) /\ call[i].server = "sdk") =>
            /\ Len(sent[i]) = 0
            /\ pc[i] = "done"
            /\ envelope[i].is_error

(***************************************************************************)
(* C10.  A flat payload and the same object wrapped in {"data": ...}       *)
(* render to the same text: two invocations of the same tool of the same   *)
(* server with the same arguments, answered with the same accepted status, *)
(* one with the flat object and one with the wrapped one, end alike.       *)
(* Stated of the tools whose payload is one object.                        *)
(* Fails: only the standalone get_workflow falls back to the raw payload.  *)
(***************************************************************************)
C10_FlatAndWrappedRenderAlike ==
    \A i, k \in Slots :
        ( /\ call[i].name \in {"get_workflow", "execute_workflow", "get_execution"}
          /\ ~MissesRequired(i)
          /\ call[i] = call[k]
          /\ Ended(i) /\ Ended(k)
          /\ Answered(i) /\ Answered(k)
          /\ reply[i].status = reply[k].status
          /\ ClaimAccepted(MethodOf(i), reply[i].status)
          /\ reply[i].body = BodyFlat /\ reply[k].body = BodyWrapped ) =>
            /\ pc[i] = pc[k]
            /\ envelope[i] = envelope[k]

\* C10 does hold of the standalone get_workflow.
StandaloneWorkflowRendersAlike ==
    \A i, k \in Slots :
        ( /\ call[i].name = "get_workflow" /\ call[i].server = "standalone"
          /\ call[i] = call[k]
          /\ Ended(i) /\ Ended(k)
          /\ Answered(i) /\ Answered(k)
          /\ reply[i].status = reply[k].status
          /\ ClaimAccepted(MethodOf(i), reply[i].status)
          /\ reply[i].body = BodyFlat /\ reply[k].body = BodyWrapped ) =>
            /\ pc[i] = "done" /\ pc[k] = "done"
            /\ envelope[i] = envelope[k]

(***************************************************************************)
(* C11.  The tool catalog is constant: every catalog query, before,        *)
(* between or after any invocations, returns the same six descriptors in   *)
(* the same order (list_workflows, get_workflow, execute_workflow,         *)
(* get_execution, activate_workflow, deactivate_workflow) with the same    *)
(* required arguments, and no invocation changes the catalog.              *)
(* The standalone descriptors carry their `required` lists; the sdk        *)
(* descriptors carry the parameters their @tool schemas name.              *)
(***************************************************************************)
CatalogOrder == <<"list_workflows", "get_workflow", "execute_workflow",
                  "get_execution", "activate_workflow", "deactivate_workflow">>

RequiredArguments(name) == IF RequiredKey(name) = "" THEN <<>> ELSE <<RequiredKey(name)>>

SixInOrder(tools) ==
    /\ Len(tools) = Len(CatalogOrder)
    /\ \A n \in 1..Len(tools) : tools[n].name = CatalogOrder[n]

C11_CatalogConstant ==
    /\ SixInOrder(n8n_server.tools)
    /\ \A n \in 1..Len(n8n_server.tools) :
          n8n_server.tools[n].input_schema = Properties(CatalogOrder[n])
    /\ listed # NoListing =>
          /\ SixInOrder(listed.tools)
          /\ listed.server = "standalone" =>
                \A n \in 1..Len(listed.tools) :
                    listed.tools[n].required = RequiredArguments(CatalogOrder[n])
          /\ listed.server = "sdk" => listed.tools = n8n_server.tools

\* A catalog was returned while one invocation was over and another in flight.
C11_Witness ==
    /\ listed # NoListing
    /\ \E i, k \in Slots : pc[i] \in {"done", "raised"} /\ pc[k] = "awaiting"

(***************************************************************************)
(* C12.  The steps of a call run in the order configuration check,         *)
(* dispatch lookup, body parse, HTTP call, classify, render, and the first *)
(* failing step decides the envelope: with no credential together with an  *)
(* unknown tool name, or together with malformed input_data, the envelope  *)
(* returned is the configuration error, and no request is sent.            *)
(* Fails: the credential is tested inside make_n8n_request, which the      *)
(* handlers call after the dispatch on the name and after json.loads.      *)
(***************************************************************************)
C12_EarliestStepDecides ==
    \A i \in Slots :
        ( /\ pc[i] = "done" /\ IsTool(i)
          /\ NoCredential(N8N_API_KEY)
          /\ (call[i].name = UnknownTool \/ MalformedInput(i)) ) =>
            /\ envelope[i].text = ConfigErrorText
            /\ sent[i] = <<>>

\* The order the code runs in: dispatch, parse, then the credential test.
DispatchAndParsePrecedeCredentialTest ==
    \A i \in Slots :
        (pc[i] = "done" /\ IsTool(i) /\ NoCredential(N8N_API_KEY)) =>
            /\ sent[i] = <<>>
            /\ call[i].name = UnknownTool =>
                  envelope[i].text = <<"Unknown tool: ", UnknownTool>>
            /\ (MalformedInput(i) /\ ~MissesRequired(i)) =>
                  envelope[i].text = InvalidInput
            /\ (call[i].name # UnknownTool /\ ~MalformedInput(i) /\ ~MissesRequired(i)) =>
                  envelope[i].text = ConfigErrorText

(***************************************************************************)
(* C13.  The HTTP session opened for an invocation is that invocation's    *)
(* own and is closed by the time the invocation ends, on every exit path:  *)
(* success, service error, transport error and cancellation of the call in *)
(* flight.  No invocation that is over has a session open: a session is    *)
(* open exactly while its invocation awaits the exchange, an invocation    *)
(* that sent a request ends with its session closed, and one that sent     *)
(* none never opened one.                                                  *)
(***************************************************************************)
Terminated(i) == pc[i] \in {"done", "raised", "cancelled"}

C13_SessionClosedAtEnd ==
    \A i \in Slots :
        /\ (session[i] = "open") <=> (pc[i] = "awaiting")
        /\ Terminated(i) =>
              session[i] = (IF sent[i] = <<>> THEN "none" ELSE "closed")
        /\ pc[i] = "idle" => session[i] = "none"

\* One invocation was cancelled in flight and another met a transport failure;
\* both are over and both sessions are closed.
C13_Witness ==
    \E i, k \in Slots :
        /\ pc[i] = "cancelled" /\ session[i] = "closed"
        /\ Ended(k) /\ reply[k].kind = "failure" /\ session[k] = "closed"

(***************************************************************************)
(* C14.  Concurrent invocations do not interfere.  Under every             *)
(* interleaving, a step of one invocation leaves every other invocation's  *)
(* state as it was and leaves the configuration as it was; and the request *)
(* an invocation issues and the envelope it returns are determined by its  *)
(* own tool name and arguments, the configuration and the outcome of its   *)
(* own HTTP call: two invocations alike in these issue the same request    *)
(* and end alike, whatever else ran beside or before them.                 *)
(***************************************************************************)
SlotState(i) == <<pc[i], call[i], sent[i], session[i], reply[i], result[i], envelope[i]>>

Determined ==
    \A i, k \in Slots :
        (call[i] = call[k] /\ pc[i] # "idle" /\ pc[k] # "idle") =>
            /\ sent[i] = sent[k]
            /\ (~(pc[i] \in {"awaiting", "cancelled"}) /\ ~(pc[k] \in {"awaiting", "cancelled"})
                  /\ reply[i] = reply[k]) =>
                    /\ pc[i] = pc[k]
                    /\ envelope[i] = envelope[k]

C14_NoInterference ==
    [][ /\ N8N_API_KEY' = N8N_API_KEY
        /\ n8n_server' = n8n_server
        /\ \E i \in Slots : \A k \in Slots \ {i} : SlotState(k)' = SlotState(k)
        /\ Determined' ]_vars

\* Two different invocations were in flight together; one has been answered
\* and has returned while the other still awaits its own exchange.
C14_Witness ==
    \E i, k \in Slots :
        /\ pc[i] = "done" /\ reply[i].kind = "response" /\ sent[i] # <<>>
        /\ pc[k] = "awaiting" /\ sent[k] # <<>>
        /\ call[i].name # call[k].name

\* Two invocations alike in name, arguments and remote outcome, both returned.
AlikeBothReturned ==
    \E i, k \in Slots :
        /\ i # k /\ call[i] = call[k] /\ reply[i] = reply[k]
        /\ pc[i] = "done" /\ pc[k] = "done" /\ reply[i].kind = "response"

====
